---- MODULE Spec2Model ----
(***************************************************************************)
(* The watch session of goforge (cmd/watch.go): AdvancedWatcher,           *)
(* ProcessManager, PortManager and Debouncer as a state machine.           *)
(*                                                                         *)
(* Time is discrete; one tick is 500ms.  Three kinds of tasks run          *)
(* interleaved: the main task (watchCmd.RunE: Start, wait for the signal,  *)
(* Stop, deferred Close), the event loop (watchLoop) and one task per      *)
(* debounce timer (time.AfterFunc runs its function in its own goroutine). *)
(* Task 0 is the main task; task i >= 1 is the timer created by the i-th   *)
(* call of Debounce and, once the timer has fired, the restart sequence    *)
(* (smartRestart) it runs.                                                 *)
(***************************************************************************)
EXTENDS Integers, Sequences, FiniteSets, TLC

\* Program durations, in ticks of 500ms.
DebounceTicks == 3
CoolDownTicks == 4
GraceTicks == 6
SettleTicks == 1

\* Bound of the model: the number of Debounce calls of one session.
MaxCalls == 2

\* Every Debounce call leads to at most one Start, after the initial one.
MaxStarts == MaxCalls + 1

Main == 0
Seqs == 1..MaxCalls
Tasks == 0..MaxCalls
Cmds == 1..MaxStarts

VARIABLES
    mainPhase,    \* where watchCmd.RunE is: "startup", "running" (waiting for the
                  \* signal), "stop" (in watcher.Stop), "close" (in the deferred
                  \* Close after Stop), "fail" (in the deferred Close after a
                  \* failed Start), "exited"
    fw,           \* aw.fileWatcher: "nil", "open", "partial" (open, the walk that
                  \* subscribes the directories broken off by an error), "closed"
    pmSet,        \* aw.processManager != nil
    loop,         \* watchLoop goroutine: "none", "running", "returned"
    pmCmd,        \* pm.cmd: 0 is nil, else the exec.Cmd object
    pmCtx,        \* pm.ctx / pm.cancel: 0 is nil, else the Cmd whose context they are
    cmds,         \* the exec.Cmd objects created so far, by number
    nCmds,        \* how many exec.Cmd objects Start has created
    task,         \* per task: position and locals
    dTimer,       \* d.timer: 0 is nil, else the task of the latest timer
    nCalls,       \* how many times Debounce was called
    gap,          \* per Debounce call: how long after the previous call it came
    sinceCall,    \* ticks since the latest Debounce call (saturated above DebounceTicks)
    sinceRestart, \* time.Since(lastRestart), saturated at CoolDownTicks
    crashed,      \* a goroutine panicked (nil dereference): the process is gone
    ev,           \* a file event under classification by the event filter
    pt,           \* a call of PortManager.EnsurePortAvailable under way
    sinceDone,    \* ticks since the latest restart sequence ended (saturated at
                  \* CoolDownTicks, which it is before the first has ended)
    wk            \* a walk of addWatchPaths over the project tree under way

vars == <<mainPhase, fw, pmSet, loop, pmCmd, pmCtx, cmds, nCmds, task, dTimer,
          nCalls, gap, sinceCall, sinceRestart, crashed, ev, pt, sinceDone, wk>>

\* The state of the watch session: all but the event filter and the port call
\* taken by themselves.
sessionVars == <<mainPhase, fw, pmSet, loop, pmCmd, pmCtx, cmds, nCmds, task,
                 dTimer, nCalls, gap, sinceCall, sinceRestart, crashed,
                 sinceDone>>

\* A fresh exec.Cmd: not started (Process == nil), context live, no signal yet.
\* proc is "nil" before the spawn, "alive", and then how the child ended:
\* "exited" by itself, "reaped" once a Wait of an exit monitor has collected
\* the exit status, or "killed".  terms counts the SIGTERMs a live child has
\* received.  mon is the exit monitor goroutine of the Start that spawned the
\* command: "none", "spawned" (created, has not run), "waiting" (in Wait on
\* command mw), what it did ("reported" the exit as unexpected, or stayed
\* "silent"), and "done" when the goroutine has returned.
NewCmd == [proc |-> "nil", ctx |-> "live", terms |-> 0, mon |-> "none", mw |-> 0]

\* A task that has not acted.
NewTask == [pc |-> "none", h |-> 0, w |-> 0, clk |-> 0,
            stop |-> "none", start |-> "none", port |-> "none"]

\* The process runs: neither has main returned nor has a goroutine panicked.
Up == mainPhase # "exited" /\ ~crashed

Alive == {c \in Cmds : cmds[c].proc = "alive"}

Min(a, b) == IF a < b THEN a ELSE b

\* No file event is under classification.
NoEvent == [watcher |-> "none", path |-> <<>>, op |-> {}, verdict |-> "none"]

\* EnsurePortAvailable is not being called.  Of a call, pt holds: pc, where it
\* is; now, the ticks since deadline was computed; clk, the ticks left of a
\* sleep; held, whether another process has the port bound; lsn, whether the
\* listener of a probe is open; probes, how many times the loop has probed
\* (2 stands for more); cleaned, whether attemptPortCleanup was called;
\* signalled, whether it sent SIGTERM; hitAt, when a probe of the loop
\* succeeded (-1: none has); killed, whether the cleanup of the iteration
\* under way has sent a forceful kill; os, runtime.GOOS; cfgFile, whether
\* config/default.yml could be read, and cfgPort, its server.port (0 when it
\* has none); port, the port the call is for (0 before the call).
NoCall == [pc |-> "idle", now |-> 0, clk |-> 0, held |-> FALSE, lsn |-> FALSE,
           probes |-> 0, cleaned |-> FALSE, signalled |-> FALSE, hitAt |-> -1,
           killed |-> FALSE, os |-> "linux", cfgFile |-> FALSE, cfgPort |-> 0,
           port |-> 0]

\* The session after NewAdvancedWatcher, as RunE is about to call Start.
SessionInit ==
    /\ mainPhase = "startup"
    /\ fw = "nil"
    /\ pmSet = FALSE
    /\ loop = "none"
    /\ pmCmd = 0
    /\ pmCtx = 0
    /\ cmds = [c \in Cmds |-> NewCmd]
    /\ nCmds = 0
    /\ task = [t \in Tasks |-> IF t = Main THEN [NewTask EXCEPT !.pc = "aw_start"]
                                            ELSE NewTask]
    /\ dTimer = 0
    /\ nCalls = 0
    /\ gap = [i \in Seqs |-> "after"]
    /\ sinceCall = DebounceTicks + 1
    /\ sinceRestart = CoolDownTicks
    /\ crashed = FALSE
    /\ sinceDone = CoolDownTicks

\* addWatchPaths is not walking.  Of a walk, wk holds: pc, where it is;
\* watcher, whose patterns apply; todo, the entries of the tree filepath.Walk
\* has yet to visit, in its order; subscribed, the directories added to the
\* fsnotify watcher so far.
NoWalk == [pc |-> "idle", watcher |-> "none", todo |-> <<>>, subscribed |-> {}]

Init == SessionInit /\ ev = NoEvent /\ pt = NoCall /\ wk = NoWalk

\* Deliver signal sig to child c: only a live process receives it, and a kill
\* (SIGKILL from Stop, or os.Process.Kill from the context of
\* exec.CommandContext) ends it.
Deliver(cs, c, sig) ==
    IF c = 0 \/ cs[c].proc # "alive" THEN cs
    ELSE IF sig = "TERM" THEN [cs EXCEPT ![c].terms = @ + 1]
         ELSE [cs EXCEPT ![c].proc = "killed", ![c].terms = 0]

\* pm.cancel(): the context of the latest Start becomes done.
Cancel(cs, c) == IF c = 0 THEN cs ELSE [cs EXCEPT ![c].ctx = "cancelled"]

\* pm.cmd.Process.Pid panics when pm.cmd or pm.cmd.Process is nil.
NilDeref(cmd, cs) == cmd = 0 \/ cs[cmd].proc = "nil"

\* A Stop that tests pm.cmd alone and forgets pm.cmd.Process.
StopNoChildCmdOnly(cmd, cs) == cmd = 0

\* The test that opens ProcessManager.Stop: pm.cmd == nil || pm.cmd.Process == nil.
StopNoChild(cmd, cs) == cmd = 0 \/ cs[cmd].proc = "nil"

\* A smartRestart that ends after its Stop.
AfterStopPcNoRestart(t) == IF t = Main THEN "fw_close" ELSE "done"

\* A smartRestart that leaves out EnsurePortAvailable.
AfterStopPcSkipsPort(t) == IF t = Main THEN "fw_close" ELSE "settle"

\* Where a task goes on when pm.Stop returns: AdvancedWatcher.Stop closes the
\* file watcher, smartRestart goes on to the port.
AfterStopPc(t) == IF t = Main THEN "fw_close" ELSE "port"

\* Where a task goes on when pm.Start returns: AdvancedWatcher.Start launches
\* watchLoop and RunE waits for the signal, or RunE returns the error and its
\* deferred Close runs; smartRestart returns.
AfterStartPc(t, ok) ==
    IF t = Main THEN (IF ok THEN "waitsig" ELSE "stop_check") ELSE "done"

AfterStartPhase(t, ok) ==
    IF t = Main THEN (IF ok THEN "running" ELSE "fail") ELSE mainPhase

\* A watchLoop that gives up when a restart fails.
AfterStartLoopFatal(t, ok) ==
    IF t = Main /\ ok THEN "running" ELSE IF ok THEN loop ELSE "returned"

\* A failed restart is logged by the debounced function; watchLoop is not told.
AfterStartLoop(t, ok) ==
    IF t = Main /\ ok THEN "running" ELSE loop

\* A smartRestart that returns the error of EnsurePortAvailable.
AfterPortPcFatal(res) == IF res = "err" THEN "done" ELSE "settle"

\* The step of smartRestart after EnsurePortAvailable: its error is logged only.
AfterPortPc(res) == "settle"

\* What Start leaves in the task when it returns: its result, and nothing of
\* the finished steps of the sequence.
StartReturn(r, t, ok) ==
    [NewTask EXCEPT !.pc = AfterStartPc(t, ok),
                    !.start = IF ok THEN "ok" ELSE "err"]

\* The time since the end of the latest restart sequence, when task t returns
\* from pm.Start: smartRestart returns with it, AdvancedWatcher.Start does not.
SequenceEnd(t) == IF t = Main THEN sinceDone ELSE 0

\* The process ends: every goroutine and every timer is gone.
Gone == [t \in Tasks |-> [NewTask EXCEPT !.pc = "gone"]]

\* The exit monitors end with the process; the children do not.
NoMonitors(cs) == [c \in Cmds |-> [cs[c] EXCEPT !.mon = IF @ = "none" THEN @ ELSE "done",
                                                 !.mw = 0]]

\* A nil dereference panics: the process dies with every goroutine.
Panic ==
    /\ crashed' = TRUE
    /\ task' = Gone
    /\ cmds' = NoMonitors(cmds)
    /\ UNCHANGED <<mainPhase, fw, pmSet, loop, pmCmd, pmCtx, nCmds,
                   dTimer, nCalls, gap, sinceCall, sinceRestart, ev, pt, sinceDone, wk>>

\* An AdvancedWatcher.Start that logs the error of the walk and goes on.
AwStartGoesOn(outcome) ==
    /\ Up
    /\ task[Main].pc = "aw_start"
    /\ fw' = CASE outcome = "watcher_err" -> "nil"
                [] outcome = "walk_err" -> "partial"
                [] OTHER -> "open"
    /\ pmSet' = (outcome # "watcher_err")
    /\ mainPhase' = IF outcome = "watcher_err" THEN "fail" ELSE "startup"
    /\ task' = [task EXCEPT ![Main].pc =
                   IF outcome = "watcher_err" THEN "fw_close" ELSE "start_assign"]
    /\ UNCHANGED <<loop, pmCmd, pmCtx, cmds, nCmds, dTimer, nCalls, gap,
                   sinceCall, sinceRestart, crashed, ev, pt, sinceDone, wk>>

\* AdvancedWatcher.Start up to the call of pm.Start: create the fsnotify
\* watcher, the managers, and walk the tree.
AwStart(outcome) ==
    /\ Up
    /\ task[Main].pc = "aw_start"
    /\ fw' = CASE outcome = "watcher_err" -> "nil"
                [] outcome = "walk_err" -> "partial"
                [] OTHER -> "open"
    /\ pmSet' = (outcome # "watcher_err")
    /\ mainPhase' = IF outcome = "ok" THEN "startup" ELSE "fail"
    /\ task' = [task EXCEPT ![Main].pc =
                   CASE outcome = "ok" -> "start_assign"
                     [] outcome = "walk_err" -> "stop_check"
                     [] OTHER -> "fw_close"]
    /\ UNCHANGED <<loop, pmCmd, pmCtx, cmds, nCmds, dTimer, nCalls, gap,
                   sinceCall, sinceRestart, crashed, ev, pt, sinceDone, wk>>

\* ProcessManager.Start, first half: the new context and exec.Cmd are stored
\* in pm; in filtered mode the pipes are made, which can fail.
StartAssign(t, pipeOk) ==
    /\ Up
    /\ task[t].pc = "start_assign"
    /\ nCmds < MaxStarts
    /\ nCmds' = nCmds + 1
    /\ pmCtx' = nCmds + 1
    /\ pmCmd' = nCmds + 1
    /\ task' = [task EXCEPT ![t] = IF pipeOk THEN [@ EXCEPT !.pc = "start_spawn"]
                                    ELSE StartReturn(@, t, FALSE)]
    /\ mainPhase' = IF pipeOk THEN mainPhase ELSE AfterStartPhase(t, FALSE)
    /\ sinceDone' = IF pipeOk THEN sinceDone ELSE SequenceEnd(t)
    /\ UNCHANGED <<fw, pmSet, loop, cmds, dTimer, nCalls, gap, sinceCall,
                   sinceRestart, crashed, ev, pt, wk>>

\* ProcessManager.Start, second half: pm.cmd.Start() on whatever pm.cmd now
\* holds.  exec refuses a Cmd that was started already and a context that is
\* done; the spawn itself succeeds or fails.
StartSpawn(t, spawnOk) ==
    /\ Up
    /\ task[t].pc = "start_spawn"
    /\ IF pmCmd = 0 THEN Panic
       ELSE LET ok == spawnOk /\ cmds[pmCmd].proc = "nil" /\ cmds[pmCmd].ctx = "live" IN
            /\ cmds' = IF ok THEN [cmds EXCEPT ![pmCmd].proc = "alive",
                                                ![pmCmd].mon = "spawned"]
                       ELSE cmds
            /\ task' = [task EXCEPT ![t] = StartReturn(task[t], t, ok)]
            /\ mainPhase' = AfterStartPhase(t, ok)
            /\ loop' = AfterStartLoop(t, ok)
            /\ sinceDone' = SequenceEnd(t)
            /\ UNCHANGED <<fw, pmSet, pmCmd, pmCtx, nCmds, dTimer, nCalls, gap,
                           sinceCall, sinceRestart, crashed, ev, pt, wk>>

\* ProcessManager.Stop, the opening test.
StopCheck(t) ==
    /\ Up
    /\ task[t].pc = "stop_check"
    /\ task' = IF StopNoChild(pmCmd, cmds)
               THEN [task EXCEPT ![t].pc = AfterStopPc(t), ![t].stop = "noop"]
               ELSE [task EXCEPT ![t].pc = "stop_signal"]
    /\ UNCHANGED <<mainPhase, fw, pmSet, loop, pmCmd, pmCtx, cmds, nCmds, dTimer,
                   nCalls, gap, sinceCall, sinceRestart, crashed, ev, pt, sinceDone, wk>>

\* ProcessManager.Stop: cancel the context, find the process group, SIGTERM it.
\* The kill the cancelled context sets off races with the SIGTERM: killFirst
\* says that it lands first.
StopSignal(t, killFirst) ==
    /\ Up
    /\ task[t].pc = "stop_signal"
    /\ IF NilDeref(pmCmd, cmds) THEN Panic
       ELSE /\ cmds' = IF killFirst
                       THEN Deliver(Deliver(Cancel(cmds, pmCtx), pmCtx, "KILL"),
                                    pmCmd, "TERM")
                       ELSE Deliver(Cancel(cmds, pmCtx), pmCmd, "TERM")
            /\ task' = [task EXCEPT ![t].pc = "stop_wait", ![t].h = pmCmd]
            /\ UNCHANGED <<mainPhase, fw, pmSet, loop, pmCmd, pmCtx, nCmds, dTimer,
                           nCalls, gap, sinceCall, sinceRestart, crashed, ev, pt, sinceDone, wk>>

\* ProcessManager.Stop: the goroutine that waits for pm.cmd.Process (a call
\* of Wait on a nil command or a nil process panics), and the start of the 3s
\* timer of the select.
StopWait(t) ==
    /\ Up
    /\ task[t].pc = "stop_wait"
    /\ IF NilDeref(pmCmd, cmds) THEN Panic
       ELSE /\ task' = [task EXCEPT ![t].pc = "stop_select", ![t].w = pmCmd,
                                    ![t].clk = GraceTicks]
            /\ UNCHANGED <<mainPhase, fw, pmSet, loop, pmCmd, pmCtx, cmds, nCmds,
                           dTimer, nCalls, gap, sinceCall, sinceRestart,
                           crashed, ev, pt, sinceDone, wk>>

\* What Stop leaves in the task when it returns.
StopReturn(tk, t, how) ==
    [tk EXCEPT ![t].pc = AfterStopPc(t), ![t].stop = how, ![t].h = 0, ![t].w = 0,
               ![t].clk = 0]

\* ProcessManager.Stop: the wait returned before the timer; pm.cmd = nil.
StopSelectDone(t) ==
    /\ Up
    /\ task[t].pc = "stop_select"
    /\ cmds[task[t].w].proc # "alive"
    /\ pmCmd' = 0
    /\ task' = StopReturn(task, t, "graceful")
    /\ UNCHANGED <<mainPhase, fw, pmSet, loop, pmCtx, cmds, nCmds, dTimer, nCalls,
                   gap, sinceCall, sinceRestart, crashed, ev, pt, sinceDone, wk>>

\* ProcessManager.Stop: the 3s timer came first; SIGKILL the process group.
StopTimeout(t) ==
    /\ Up
    /\ task[t].pc = "stop_select"
    /\ task[t].clk = 0
    /\ cmds' = Deliver(cmds, task[t].h, "KILL")
    /\ task' = [task EXCEPT ![t].pc = "stop_killwait"]
    /\ UNCHANGED <<mainPhase, fw, pmSet, loop, pmCmd, pmCtx, nCmds, dTimer, nCalls,
                   gap, sinceCall, sinceRestart, crashed, ev, pt, sinceDone, wk>>

\* ProcessManager.Stop: <-done after the kill; pm.cmd = nil.
StopKillWait(t) ==
    /\ Up
    /\ task[t].pc = "stop_killwait"
    /\ cmds[task[t].w].proc # "alive"
    /\ pmCmd' = 0
    /\ task' = StopReturn(task, t, "forced")
    /\ UNCHANGED <<mainPhase, fw, pmSet, loop, pmCtx, cmds, nCmds, dTimer, nCalls,
                   gap, sinceCall, sinceRestart, crashed, ev, pt, sinceDone, wk>>

\* watchCmd.RunE: the shutdown signal arrives; RunE calls watcher.Stop().
Signal ==
    /\ Up
    /\ mainPhase = "running"
    /\ task[Main].pc = "waitsig"
    /\ mainPhase' = "stop"
    /\ task' = [task EXCEPT ![Main].pc = "stop_check"]
    /\ UNCHANGED <<fw, pmSet, loop, pmCmd, pmCtx, cmds, nCmds, dTimer, nCalls, gap,
                   sinceCall, sinceRestart, crashed, ev, pt, sinceDone, wk>>

\* AdvancedWatcher.Stop, second half: close the file watcher (closing a closed
\* fsnotify watcher returns nil) and return.  After Stop, RunE returns and its
\* deferred Close runs Stop again; after Close the process ends.
FwClose ==
    /\ Up
    /\ task[Main].pc = "fw_close"
    /\ fw' = IF fw = "nil" THEN "nil" ELSE "closed"
    /\ mainPhase' = IF mainPhase = "stop" THEN "close" ELSE "exited"
    /\ task' = IF mainPhase = "stop"
               THEN [task EXCEPT ![Main].pc = "stop_check", ![Main].stop = "none"]
               ELSE Gone
    /\ cmds' = IF mainPhase = "stop" THEN cmds ELSE NoMonitors(cmds)
    /\ UNCHANGED <<pmSet, loop, pmCmd, pmCtx, nCmds, dTimer, nCalls, gap,
                   sinceCall, sinceRestart, crashed, ev, pt, sinceDone, wk>>

\* A Debounce that arms the new timer and leaves the old one running.
DebounceNoStop(tk, prev, i) ==
    [tk EXCEPT ![i].pc = "pending", ![i].clk = DebounceTicks]

\* Debouncer.Debounce as call number i: stop the timer d.timer holds (a timer
\* that has fired is not stopped), then arm a new one.
Debounce(tk, prev, i) ==
    [t \in Tasks |->
        IF t = i THEN [tk[t] EXCEPT !.pc = "pending", !.clk = DebounceTicks]
        ELSE IF t = prev /\ tk[t].pc = "pending" THEN [tk[t] EXCEPT !.pc = "cancelled", !.clk = 0]
        ELSE tk[t]]

\* How long after the previous call a call of Debounce comes: "within" the
\* debounce delay, "at" it, or "after" it.
GapOf(since) ==
    IF since < DebounceTicks THEN "within"
    ELSE IF since = DebounceTicks THEN "at" ELSE "after"

\* A watchLoop without the cool-down test.
NoCoolDown(since) == FALSE

\* The cool-down test of watchLoop: time.Since(lastRestart) < 2s.
InCoolDown(since) == since < CoolDownTicks

\* watchLoop, one event: an event shouldIgnoreEvent rejects is dropped, a
\* relevant one is dropped inside the cool-down and debounced otherwise.
LoopEvent(relevant) ==
    /\ Up
    /\ loop = "running"
    /\ fw = "open"
    /\ IF relevant /\ ~InCoolDown(sinceRestart)
       THEN /\ nCalls < MaxCalls
            /\ task' = Debounce(task, dTimer, nCalls + 1)
            /\ dTimer' = nCalls + 1
            /\ nCalls' = nCalls + 1
            /\ gap' = [gap EXCEPT ![nCalls + 1] = GapOf(sinceCall)]
            /\ sinceCall' = 0
       ELSE UNCHANGED <<task, dTimer, nCalls, gap, sinceCall>>
    /\ UNCHANGED <<mainPhase, fw, pmSet, loop, pmCmd, pmCtx, cmds, nCmds,
                   sinceRestart, crashed, ev, pt, sinceDone, wk>>

\* watchLoop returns when the Events channel is closed.
LoopExit ==
    /\ Up
    /\ loop = "running"
    /\ fw = "closed"
    /\ loop' = "returned"
    /\ UNCHANGED <<mainPhase, fw, pmSet, pmCmd, pmCtx, cmds, nCmds, task, dTimer,
                   nCalls, gap, sinceCall, sinceRestart, crashed, ev, pt, sinceDone, wk>>

\* The timer of call i fires: the runtime starts a goroutine of its own for
\* the function Debounce was given.  From now on Stop does not reach it.
TimerFire(i) ==
    /\ Up
    /\ task[i].pc = "pending"
    /\ task[i].clk = 0
    /\ task' = [task EXCEPT ![i].pc = "fired"]
    /\ UNCHANGED <<mainPhase, fw, pmSet, loop, pmCmd, pmCtx, cmds, nCmds, dTimer,
                   nCalls, gap, sinceCall, sinceRestart, crashed, ev, pt,
                   sinceDone, wk>>

\* The function of call i runs: it sets lastRestart and enters smartRestart,
\* which calls pm.Stop.
RunDebounced(i) ==
    /\ Up
    /\ task[i].pc = "fired"
    /\ task' = [task EXCEPT ![i].pc = "stop_check"]
    /\ sinceRestart' = 0
    /\ UNCHANGED <<mainPhase, fw, pmSet, loop, pmCmd, pmCtx, cmds, nCmds, dTimer,
                   nCalls, gap, sinceCall, crashed, ev, pt, sinceDone, wk>>

\* EnsurePortAvailable returns: nil when a probe finds the port free before
\* the deadline, an error when the deadline has passed.  smartRestart goes on
\* to its 500ms sleep either way.
PortReturn(i, res) ==
    /\ Up
    /\ task[i].pc = "port"
    /\ task' = [task EXCEPT ![i].pc = AfterPortPc(res), ![i].port = res,
                            ![i].clk = SettleTicks]
    /\ UNCHANGED <<mainPhase, fw, pmSet, loop, pmCmd, pmCtx, cmds, nCmds, dTimer,
                   nCalls, gap, sinceCall, sinceRestart, crashed, ev, pt, sinceDone, wk>>

\* smartRestart: the 500ms sleep is over; call pm.Start.
Settle(i) ==
    /\ Up
    /\ task[i].pc = "settle"
    /\ task[i].clk = 0
    /\ task' = [task EXCEPT ![i].pc = "start_assign"]
    /\ UNCHANGED <<mainPhase, fw, pmSet, loop, pmCmd, pmCtx, cmds, nCmds, dTimer,
                   nCalls, gap, sinceCall, sinceRestart, crashed, ev, pt, sinceDone, wk>>

\* exec.CommandContext: once the context is done, the goroutine exec started
\* with the command kills the process (os.Process.Kill).
CtxKill(c) ==
    /\ Up
    /\ cmds[c].ctx = "cancelled"
    /\ cmds[c].proc = "alive"
    /\ cmds' = Deliver(cmds, c, "KILL")
    /\ UNCHANGED <<mainPhase, fw, pmSet, loop, pmCmd, pmCtx, nCmds, task, dTimer,
                   nCalls, gap, sinceCall, sinceRestart, crashed, ev, pt, sinceDone, wk>>

\* The child exits: on its own, or as its answer to SIGTERM.
ChildExit(c) ==
    /\ Up
    /\ cmds[c].proc = "alive"
    /\ cmds' = [cmds EXCEPT ![c].proc = "exited", ![c].terms = 0]
    /\ UNCHANGED <<mainPhase, fw, pmSet, loop, pmCmd, pmCtx, nCmds, task, dTimer,
                   nCalls, gap, sinceCall, sinceRestart, crashed, ev, pt, sinceDone, wk>>

\* The exit monitor of command c starts to run: it calls pm.cmd.Wait() on what
\* pm.cmd holds by now, which no lock ties to the command its Start spawned.
MonitorWait(c) ==
    /\ Up
    /\ cmds[c].mon = "spawned"
    /\ IF pmCmd = 0 THEN Panic
       ELSE /\ cmds' = [cmds EXCEPT ![c].mon = "waiting", ![c].mw = pmCmd]
            /\ UNCHANGED <<mainPhase, fw, pmSet, loop, pmCmd, pmCtx, nCmds, task,
                           dTimer, nCalls, gap, sinceCall, sinceRestart, crashed,
                           ev, pt, sinceDone, wk>>

\* The value of err after pm.cmd.Wait(): nil when this Wait collects the status
\* of a child that exited with status 0; an error for every other exit, for a
\* killed child, for a command that was never started and for a child whose
\* status another Wait has collected.
WaitErr(cs, d, status) == ~(cs[d].proc = "exited" /\ status = "zero")

\* The test of the exit monitor: err != nil && pm.ctx.Err() == nil, on the
\* context pm.ctx holds when the monitor runs.
Unexpected(cs, d, status, ctx) ==
    WaitErr(cs, d, status) /\ ctx # 0 /\ cs[ctx].ctx = "live"

\* The Wait of the exit monitor of command c returns, with the exit status of
\* the child if there is one to collect, and the monitor reports the exit or
\* stays silent.
MonitorReport(c, status) ==
    /\ Up
    /\ cmds[c].mon = "waiting"
    /\ cmds[cmds[c].mw].proc # "alive"
    /\ LET d == cmds[c].mw
           after == [cmds EXCEPT ![d].proc = IF @ = "exited" THEN "reaped" ELSE @]
       IN cmds' = [after EXCEPT ![c].mon = IF Unexpected(cmds, d, status, pmCtx)
                                           THEN "reported" ELSE "silent"]
    /\ UNCHANGED <<mainPhase, fw, pmSet, loop, pmCmd, pmCtx, nCmds, task, dTimer,
                   nCalls, gap, sinceCall, sinceRestart, crashed, ev, pt, sinceDone, wk>>

\* The exit monitor of command c returns: the goroutine is over.
MonitorReturn(c) ==
    /\ Up
    /\ cmds[c].mon \in {"reported", "silent"}
    /\ cmds' = [cmds EXCEPT ![c].mon = "done", ![c].mw = 0]
    /\ UNCHANGED <<mainPhase, fw, pmSet, loop, pmCmd, pmCtx, nCmds, task, dTimer,
                   nCalls, gap, sinceCall, sinceRestart, crashed, ev, pt, sinceDone, wk>>

\* An exit monitor is about to run: to call Wait, or to return from it.
MonitorReady(c) ==
    \/ cmds[c].mon \in {"spawned", "reported", "silent"}
    \/ cmds[c].mon = "waiting" /\ cmds[cmds[c].mw].proc # "alive"

\* The positions in which a task waits on a clock.
Timed(pc) == pc \in {"pending", "stop_select", "settle"}

\* The positions in which a task is about to execute a statement: it does so
\* before 500ms pass.  In the others it waits: for a clock, for the child to
\* exit, for the port, for the signal.
Busy(pc) == pc \in {"aw_start", "start_assign", "start_spawn", "stop_check",
                    "stop_signal", "stop_wait", "fw_close", "fired"}

\* The wait of Stop for the child is over.
DoneReady(t) ==
    /\ task[t].pc \in {"stop_select", "stop_killwait"}
    /\ cmds[task[t].w].proc # "alive"

\* 500ms pass.  A timer that is due fires before more time passes, and so do
\* the kill of a cancelled context, the end of a sleep and the return of a
\* wait that is over; statements take no time.
Tick ==
    /\ Up
    /\ \A t \in Tasks : Timed(task[t].pc) => task[t].clk > 0
    /\ \A t \in Tasks : ~Busy(task[t].pc) /\ ~DoneReady(t)
    /\ \A c \in Cmds : ~(cmds[c].ctx = "cancelled" /\ cmds[c].proc = "alive")
    /\ \A c \in Cmds : ~MonitorReady(c)
    /\ task' = [t \in Tasks |->
                   IF Timed(task[t].pc) THEN [task[t] EXCEPT !.clk = @ - 1]
                   ELSE task[t]]
    /\ sinceRestart' = Min(sinceRestart + 1, CoolDownTicks)
    /\ sinceCall' = Min(sinceCall + 1, DebounceTicks + 1)
    /\ sinceDone' = Min(sinceDone + 1, CoolDownTicks)
    /\ UNCHANGED <<mainPhase, fw, pmSet, loop, pmCmd, pmCtx, cmds, nCmds, dTimer,
                   nCalls, gap, crashed, ev, pt, wk>>

Next ==
    \/ \E o \in {"ok", "watcher_err", "walk_err"} : AwStart(o)
    \/ \E t \in Tasks, b \in BOOLEAN : StartAssign(t, b)
    \/ \E t \in Tasks, b \in BOOLEAN : StartSpawn(t, b)
    \/ \E t \in Tasks : StopCheck(t)
    \/ \E t \in Tasks, b \in BOOLEAN : StopSignal(t, b)
    \/ \E t \in Tasks : StopWait(t)
    \/ \E t \in Tasks : StopSelectDone(t)
    \/ \E t \in Tasks : StopTimeout(t)
    \/ \E t \in Tasks : StopKillWait(t)
    \/ Signal
    \/ FwClose
    \/ \E r \in BOOLEAN : LoopEvent(r)
    \/ LoopExit
    \/ \E i \in Seqs : TimerFire(i)
    \/ \E i \in Seqs : RunDebounced(i)
    \/ \E i \in Seqs, res \in {"ok", "err"} : PortReturn(i, res)
    \/ \E i \in Seqs : Settle(i)
    \/ \E c \in Cmds : CtxKill(c)
    \/ \E c \in Cmds : ChildExit(c)
    \/ \E c \in Cmds : MonitorWait(c)
    \/ \E c \in Cmds, st \in {"zero", "nonzero"} : MonitorReport(c, st)
    \/ \E c \in Cmds : MonitorReturn(c)
    \/ Tick

Spec == Init /\ [][Next]_vars

\* The steps the program takes by itself once they are due: the statements of
\* RunE, of Start and Stop and of the restart sequences, the firing of timers,
\* the kill of a cancelled context, the exit monitors.
Progress ==
    \/ \E o \in {"ok", "watcher_err", "walk_err"} : AwStart(o)
    \/ \E t \in Tasks, b \in BOOLEAN : StartAssign(t, b)
    \/ \E t \in Tasks, b \in BOOLEAN : StartSpawn(t, b)
    \/ \E t \in Tasks : StopCheck(t)
    \/ \E t \in Tasks, b \in BOOLEAN : StopSignal(t, b)
    \/ \E t \in Tasks : StopWait(t)
    \/ \E t \in Tasks : StopSelectDone(t)
    \/ \E t \in Tasks : StopTimeout(t)
    \/ \E t \in Tasks : StopKillWait(t)
    \/ FwClose
    \/ LoopExit
    \/ \E i \in Seqs : TimerFire(i)
    \/ \E i \in Seqs : RunDebounced(i)
    \/ \E i \in Seqs : Settle(i)
    \/ \E c \in Cmds : CtxKill(c)
    \/ \E c \in Cmds : MonitorWait(c)
    \/ \E c \in Cmds, st \in {"zero", "nonzero"} : MonitorReport(c, st)
    \/ \E c \in Cmds : MonitorReturn(c)

\* The session under the scheduling the Go runtime gives: time passes, a
\* goroutine that can run does run, and EnsurePortAvailable returns (its loop
\* ends at the deadline).  File events, the shutdown signal and the exit of
\* the child by itself are not promised.
FairSpec ==
    /\ Spec
    /\ WF_vars(Tick)
    /\ WF_vars(Progress)
    /\ WF_vars(\E i \in Seqs, res \in {"ok", "err"} : PortReturn(i, res))

TypeOK ==
    /\ mainPhase \in {"startup", "running", "stop", "close", "fail", "exited"}
    /\ fw \in {"nil", "open", "partial", "closed"}
    /\ pmCmd \in 0..MaxStarts
    /\ pmCmd # 0 => pmCmd = pmCtx
    /\ \A t \in Tasks : task[t].clk \in 0..GraceTicks

\* The function of Debounce call i has started to run.
Ran(i) == task[i].pc \notin {"none", "pending", "cancelled"}

\* Task t leaves position pc in this step, by a step of its own (the end of
\* the process takes every task away).
Leaves(t, pc) == task[t].pc = pc /\ task'[t].pc \notin {pc, "gone"}

\* Task t returns from pm.Start with an error in this step.
StartFails(t) ==
    /\ Leaves(t, "start_assign") \/ Leaves(t, "start_spawn")
    /\ task'[t].pc # "start_spawn"
    /\ task'[t].start = "err"

\* C1: at most one child started by the ProcessManager is alive, in every
\* reachable state of the session.
C1_AtMostOneChild == Cardinality(Alive) <= 1

\* C2: while the process runs, of a burst of Debounce calls, each less than
\* the debounce delay after the one before, the functions of all but the last
\* never run (their timers are cancelled), and the function of the last runs
\* once the delay has passed after it with no further call.
C2_DebounceBurst ==
    \A i \in Seqs : (Up /\ i <= nCalls) =>
        /\ (i < nCalls /\ gap[i + 1] = "within") => task[i].pc = "cancelled"
        /\ (i < nCalls /\ gap[i + 1] = "after") => Ran(i)
        /\ (i = nCalls /\ sinceCall > DebounceTicks) => Ran(i)

\* A burst of two calls was made and the function of the second has run.
C2_Witness ==
    \E i \in Seqs : /\ i < nCalls
                    /\ gap[i + 1] = "within"
                    /\ task[i].pc = "cancelled"
                    /\ Ran(i + 1)

\* C3: a Start made while pm holds a live child returns an error and leaves
\* the stored handle and the set of commands as they are.
C3_StartRejectedWhileRunning ==
    [][\A t \in Tasks :
          ( /\ Leaves(t, "start_assign")
            /\ pmCmd # 0
            /\ cmds[pmCmd].proc = "alive" )
          => (task'[t].start = "err" /\ pmCmd' = pmCmd /\ nCmds' = nCmds)]_vars

\* C4: a Stop made while no child is held (pm.cmd nil, or a command that was
\* never started) returns at once with success: no signal is sent, no context
\* cancelled, pm is unchanged and nothing panics.
C4_StopIdleIsNoop ==
    [][\A t \in Tasks :
          ( /\ Leaves(t, "stop_check")
            /\ (pmCmd = 0 \/ cmds[pmCmd].proc = "nil") )
          => ( /\ task'[t].pc = AfterStopPc(t)
               /\ task'[t].stop = "noop"
               /\ cmds' = cmds
               /\ pmCmd' = pmCmd
               /\ pmCtx' = pmCtx
               /\ crashed' = crashed )]_vars

\* Two Stops in a row met no child: the Stop of a restart sequence and then
\* the second Stop of the shutdown (the deferred Close).
C4_Witness ==
    /\ mainPhase = "close"
    /\ task[Main].pc = "fw_close"
    /\ task[Main].stop = "noop"
    /\ \E i \in Seqs : task[i].pc = "port" /\ task[i].stop = "noop"

\* C5: a child that a kill reaches has received SIGTERM before, and the 3s
\* timer of a Stop that signalled it has run out.
C5_GracefulBeforeKill ==
    [][\A c \in Cmds :
          (cmds[c].proc = "alive" /\ cmds'[c].proc = "killed")
          => ( /\ cmds[c].terms >= 1
               /\ \E t \in Tasks : /\ task[t].pc = "stop_select"
                                    /\ task[t].h = c
                                    /\ task[t].clk = 0 )]_vars

\* C6: when a Start returns an error, no child is alive and the next Stop
\* finds nothing to stop.
C6_FailedStartLeavesIdle ==
    [][\A t \in Tasks :
          StartFails(t)
          => ( /\ \A c \in Cmds : cmds'[c].proc # "alive"
               /\ (pmCmd' = 0 \/ cmds'[pmCmd'].proc = "nil") )]_vars

\* C7: once the shutdown Stop has been called, a pending debounce timer never
\* fires.
C7_StopCancelsPending ==
    [][\A i \in Seqs :
          (mainPhase \in {"stop", "close", "exited"} /\ task[i].pc = "pending")
          => task'[i].pc \in {"pending", "cancelled", "gone"}]_vars

DebounceStep == LoopEvent(TRUE) /\ nCalls' = nCalls + 1

\* A restart sequence has ended with a failed Start, and no shutdown has begun.
FailedRestart ==
    /\ Up
    /\ mainPhase = "running"
    /\ \E i \in Seqs : task[i].pc = "done" /\ task[i].start = "err"

\* C9: the step in which the Start of a restart sequence fails ends that
\* sequence alone: watchLoop, RunE, the Debouncer and the other sequences are
\* as they were, and nothing panics.  After it, until the shutdown, watchLoop
\* is running and a relevant event outside the cool-down is debounced.
C9_FailedRestartKeepsSession ==
    /\ [](FailedRestart => loop = "running" /\ fw = "open")
    /\ []((FailedRestart /\ ~InCoolDown(sinceRestart) /\ nCalls < MaxCalls)
             => ENABLED DebounceStep)
    /\ [][\A i \in Seqs :
          StartFails(i)
          => ( /\ task'[i].pc = "done"
               /\ loop' = loop
               /\ mainPhase' = mainPhase
               /\ fw' = fw
               /\ dTimer' = dTimer
               /\ crashed' = crashed
               /\ \A j \in Tasks : j # i => task'[j] = task[j] )]_vars
    /\ [][\A i \in Seqs :
             Leaves(i, "pending") => task'[i].pc \in {"cancelled", "fired"}]_vars

\* After a restart sequence whose Start failed, a later event was debounced
\* and its sequence has called Start again.
C9_Witness ==
    \E i, j \in Seqs : /\ i < j
                       /\ task[i].pc = "done"
                       /\ task[i].start = "err"
                       /\ gap[j] = "after"
                       /\ loop = "running"
                       /\ task[j].pc = "start_spawn"

\* C10: a restart sequence leaves EnsurePortAvailable for the 500ms sleep and
\* the sleep for pm.Start, also when the port is reported unavailable; a
\* sequence that is over has called Start, and its result is that of Start.
C10_PortErrorNotFatal ==
    /\ [][\A i \in Seqs :
             /\ Leaves(i, "port")
                   => (task'[i].pc = "settle" /\ task'[i].port \in {"ok", "err"})
             /\ Leaves(i, "settle") => task'[i].pc = "start_assign"]_vars
    /\ [](\A i \in Seqs : task[i].pc = "done" => task[i].start \in {"ok", "err"})

\* A sequence whose port was reported unavailable has called Start.
C10_Witness ==
    \E i \in Seqs : task[i].port = "err" /\ task[i].pc = "start_spawn"

\* AdvancedWatcher.Start has returned an error from the creation of the
\* fsnotify watcher or from the walk.
SetupFailed ==
    \/ fw = "partial"
    \/ fw = "nil" /\ task[Main].pc # "aw_start"

\* C16: when AdvancedWatcher.Start fails in creating the fsnotify watcher or in
\* the walk, it returns the error (RunE goes to its deferred Close and ends)
\* and no session exists in part: no command was created or spawned, watchLoop
\* was not launched and no restart is scheduled.
C16_NoPartialSession ==
    SetupFailed =>
        /\ mainPhase \in {"fail", "exited"}
        /\ nCmds = 0
        /\ pmCmd = 0
        /\ \A c \in Cmds : cmds[c].proc = "nil" /\ cmds[c].mon = "none"
        /\ loop = "none"
        /\ \A i \in Seqs : task[i].pc \in {"none", "gone"}

\* The walk failed, and the Stop of the deferred Close has found no child and
\* is about to close the half-subscribed watcher.
C16_Witness ==
    /\ fw = "partial"
    /\ mainPhase = "fail"
    /\ task[Main].pc = "fw_close"
    /\ task[Main].stop = "noop"

\* C17: the exit monitor of a command, waiting on that command, reports the
\* exit as unexpected when no Stop has cancelled the context of the command
\* (whatever the exit status), stays silent when a Stop has, and no step of an
\* exit monitor panics.
C17_MonitorReportsUnexpectedExit ==
    [][\A c \in Cmds :
          /\ ( /\ cmds[c].mon = "waiting"
               /\ cmds[c].mw = c
               /\ cmds'[c].mon \in {"reported", "silent"} )
             => /\ cmds[c].ctx = "live" => cmds'[c].mon = "reported"
                /\ cmds[c].ctx = "cancelled" => cmds'[c].mon = "silent"
          /\ ( /\ cmds[c].mon = "spawned"
               /\ \A t \in Tasks : ~Busy(task[t].pc) )
             => ~crashed']_vars

\* The child pm holds has exited on its own: no Stop has cancelled its context.
OwnExit ==
    /\ Up
    /\ pmCmd # 0
    /\ cmds[pmCmd].proc \in {"exited", "reaped"}
    /\ cmds[pmCmd].ctx = "live"

\* A restart sequence is in its Stop, waiting for a child that is dead.
StopOnDead(i) ==
    /\ task[i].pc \in {"stop_select", "stop_killwait"}
    /\ cmds[task[i].w].proc # "alive"

\* C18: while the child pm holds has exited on its own, no child is alive; a
\* child is started by a restart sequence (that a file event has triggered)
\* only; and the Stop of a restart sequence does not wait for a child that is
\* dead: no time passes before it returns.
C18_IdleAfterOwnExit ==
    /\ [](OwnExit => Alive = {})
    /\ [][\A c \in Cmds :
             (OwnExit /\ cmds[c].proc # "alive" /\ cmds'[c].proc = "alive")
             => \E i \in Seqs : Leaves(i, "start_spawn")]_vars
    /\ [][\A i \in Seqs :
             StopOnDead(i) => (task'[i].clk = task[i].clk \/ task'[i].pc # task[i].pc)]_vars

\* A restart sequence (Stop, port reclaim, delay, Start) is executing as task i.
RestartRunning(i) ==
    task[i].pc \in {"stop_check", "stop_signal", "stop_wait", "stop_select",
                    "stop_killwait", "port", "settle", "start_assign",
                    "start_spawn"}

\* C20: at most one restart sequence is executing, in every reachable state.
C20_OneRestartAtATime == Cardinality({i \in Seqs : RestartRunning(i)}) <= 1

(***************************************************************************)
(* PortManager.EnsurePortAvailable, one call taken by itself: the port is   *)
(* held by another process or free when the call begins, and the other     *)
(* process may let go of the port, or some process bind it, at any moment. *)
(***************************************************************************)

\* The durations of the call, in ticks of 500ms: the timeout smartRestart
\* passes (8s), the sleep of attemptPortCleanupUnix after SIGTERM (1s) and the
\* sleep that ends an iteration (500ms).
PortTimeoutTicks == 16
CleanupGraceTicks == 2
RetryTicks == 1

\* A loop that still probes at the deadline itself.
BeforeDeadlineInclusive(now) == now <= PortTimeoutTicks

\* The loop condition: time.Now().Before(deadline).
BeforeDeadline(now) == now < PortTimeoutTicks

\* The port loadProjectConfig falls back to.
DefaultPort == 8080

\* The values of server.port in config/default.yml: 0 stands for a file
\* without the key.
ConfigPorts == {0, 3000}

\* aw.projectPort after loadProjectConfig: server.port of config/default.yml
\* when the file can be read, and 8080 when that leaves it 0.
ProjectPort(cfgFile, cfgPort) ==
    LET projectPort == IF cfgFile THEN cfgPort ELSE 0
    IN  IF projectPort = 0 THEN DefaultPort ELSE projectPort

\* A restart sequence has come to its second step, on some platform and with
\* some application config.
PortInit ==
    /\ SessionInit
    /\ ev = NoEvent
    /\ wk = NoWalk
    /\ pt \in {[NoCall EXCEPT !.held = h, !.os = o, !.cfgFile = f, !.cfgPort = c] :
                  h \in BOOLEAN, o \in {"linux", "windows"}, f \in BOOLEAN,
                  c \in ConfigPorts}

\* smartRestart calls EnsurePortAvailable(aw.projectPort, 8s):
\* deadline := time.Now().Add(timeout).
PortCall ==
    /\ pt.pc = "idle"
    /\ pt' = [pt EXCEPT !.pc = "check", !.now = 0,
                        !.port = ProjectPort(pt.cfgFile, pt.cfgPort)]
    /\ UNCHANGED <<sessionVars, ev, wk>>

\* The loop condition is evaluated: probe again, or return the error.
PortCheck ==
    /\ pt.pc = "check"
    /\ pt' = [pt EXCEPT !.pc = IF BeforeDeadline(pt.now) THEN "listen" ELSE "err"]
    /\ UNCHANGED <<sessionVars, ev, wk>>

\* isPortAvailable in the loop: net.Listen succeeds when no process holds the
\* port, and then the listener is open.
PortListen ==
    /\ pt.pc = "listen"
    /\ pt' = IF pt.held
             THEN [pt EXCEPT !.pc = "cleanup", !.probes = Min(@ + 1, 2)]
             ELSE [pt EXCEPT !.pc = "close", !.probes = Min(@ + 1, 2),
                             !.lsn = TRUE, !.hitAt = pt.now]
    /\ UNCHANGED <<sessionVars, ev, wk>>

\* isPortAvailable closes the listener and returns true; EnsurePortAvailable
\* returns nil.
PortClose ==
    /\ pt.pc = "close"
    /\ pt' = [pt EXCEPT !.pc = "ok", !.lsn = FALSE]
    /\ UNCHANGED <<sessionVars, ev, wk>>

\* attemptPortCleanupWindows with the process netstat names: taskkill /F, and
\* back to the loop and its 500ms sleep.
CleanupWindows(p) ==
    [p EXCEPT !.pc = "sleep", !.cleaned = TRUE, !.killed = TRUE,
              !.clk = RetryTicks]

\* attemptPortCleanup.  On Linux and macOS (attemptPortCleanupUnix) lsof
\* names the process that holds the port, or does not (no process by now, an
\* error, more than one pid); a process found is sent SIGTERM and the call
\* sleeps 1s.  On Windows netstat names the process, or does not.  Without a
\* process the iteration goes to the 500ms sleep.
PortCleanup(found) ==
    /\ pt.pc = "cleanup"
    /\ pt' = IF found /\ pt.held
             THEN IF pt.os = "windows"
                  THEN CleanupWindows(pt)
                  ELSE [pt EXCEPT !.pc = "grace", !.cleaned = TRUE,
                                  !.signalled = TRUE, !.clk = CleanupGraceTicks]
             ELSE [pt EXCEPT !.pc = "sleep", !.cleaned = TRUE, !.clk = RetryTicks]
    /\ UNCHANGED <<sessionVars, ev, wk>>

\* attemptPortCleanupUnix after its sleep: isPortAvailable again; the process
\* is killed when the port is still held.  Then the 500ms sleep of the loop.
PortRecheck ==
    /\ pt.pc = "grace"
    /\ pt.clk = 0
    /\ pt' = IF pt.held
             THEN [pt EXCEPT !.pc = "sleep", !.killed = TRUE, !.clk = RetryTicks]
             ELSE [pt EXCEPT !.pc = "reclose", !.lsn = TRUE]
    /\ UNCHANGED <<sessionVars, ev, wk>>

\* isPortAvailable in attemptPortCleanupUnix closes its listener.
PortReclose ==
    /\ pt.pc = "reclose"
    /\ pt' = [pt EXCEPT !.pc = "sleep", !.lsn = FALSE, !.clk = RetryTicks]
    /\ UNCHANGED <<sessionVars, ev, wk>>

\* The 500ms sleep of the loop is over.
PortWake ==
    /\ pt.pc = "sleep"
    /\ pt.clk = 0
    /\ pt' = [pt EXCEPT !.pc = "check", !.killed = FALSE]
    /\ UNCHANGED <<sessionVars, ev, wk>>

\* 500ms pass while the call sleeps.
PortTick ==
    /\ pt.pc \in {"grace", "sleep"}
    /\ pt.clk > 0
    /\ pt' = [pt EXCEPT !.now = @ + 1, !.clk = @ - 1]
    /\ UNCHANGED <<sessionVars, ev, wk>>

\* The process that holds the port lets go of it: by itself, or because it
\* was signalled.
PortRelease ==
    /\ pt.pc \notin {"idle", "ok", "err"}
    /\ pt.held
    /\ pt' = [pt EXCEPT !.held = FALSE]
    /\ UNCHANGED <<sessionVars, ev, wk>>

\* Some process binds the port, which no listener of a probe holds.
PortTake ==
    /\ pt.pc \notin {"idle", "ok", "err"}
    /\ ~pt.held
    /\ ~pt.lsn
    /\ pt' = [pt EXCEPT !.held = TRUE]
    /\ UNCHANGED <<sessionVars, ev, wk>>

PortNext ==
    \/ PortCall
    \/ PortCheck
    \/ PortListen
    \/ PortClose
    \/ \E f \in BOOLEAN : PortCleanup(f)
    \/ PortRecheck
    \/ PortReclose
    \/ PortWake
    \/ PortTick
    \/ PortRelease
    \/ PortTake

PortSpec == PortInit /\ [][PortNext]_vars

Restarted(i) == task[i].pc = "done" /\ task[i].start = "ok"

\* What ends the restart sequence of call i without a new child: the shutdown
\* has begun, the process is over, or its Start has returned an error.
RestartOff(i) ==
    \/ ~Up
    \/ mainPhase # "running"
    \/ task[i].pc = "done" /\ task[i].start = "err"

DefaultWatch ==
    <<
      \* **/*.go
      <<"*", "*", "/", "*", ".", "g", "o">>,
      \* **/*.yml
      <<"*", "*", "/", "*", ".", "y", "m", "l">>,
      \* **/*.yaml
      <<"*", "*", "/", "*", ".", "y", "a", "m", "l">>,
      \* **/*.json
      <<"*", "*", "/", "*", ".", "j", "s", "o", "n">>
    >>

\* The default ignore patterns of loadProjectConfig.
DefaultIgnore ==
    <<
      \* **/*_test.go
      <<"*", "*", "/", "*", "_", "t", "e", "s", "t", ".", "g", "o">>,
      \* dist/**
      <<"d", "i", "s", "t", "/", "*", "*">>,
      \* vendor/**
      <<"v", "e", "n", "d", "o", "r", "/", "*", "*">>,
      \* .git/**
      <<".", "g", "i", "t", "/", "*", "*">>,
      \* node_modules/**
      <<"n", "o", "d", "e", "_", "m", "o", "d", "u", "l", "e", "s",
        "/", "*", "*">>,
      \* **/*.tmp
      <<"*", "*", "/", "*", ".", "t", "m", "p">>,
      \* **/*.log
      <<"*", "*", "/", "*", ".", "l", "o", "g">>
    >>

\* dev.watch of the goforge.yml of a scaffolded project.
TemplateWatch ==
    <<
      \* **/*.go
      <<"*", "*", "/", "*", ".", "g", "o">>,
      \* config/**/*.yml
      <<"c", "o", "n", "f", "i", "g", "/", "*", "*", "/", "*", ".",
        "y", "m", "l">>,
      \* web/templates/**/*
      <<"w", "e", "b", "/", "t", "e", "m", "p", "l", "a", "t", "e",
        "s", "/", "*", "*", "/", "*">>
    >>

\* dev.ignore of the goforge.yml of a scaffolded project.
TemplateIgnore ==
    <<
      \* dist/**
      <<"d", "i", "s", "t", "/", "*", "*">>,
      \* **/*_test.go
      <<"*", "*", "/", "*", "_", "t", "e", "s", "t", ".", "g", "o">>,
      \* .git/**
      <<".", "g", "i", "t", "/", "*", "*">>,
      \* node_modules/**
      <<"n", "o", "d", "e", "_", "m", "o", "d", "u", "l", "e", "s",
        "/", "*", "*">>
    >>

\* dev.ignore of a goforge.yml that excludes a nested build directory.
CustomIgnore ==
    <<
      \* build/out/**
      <<"b", "u", "i", "l", "d", "/", "o", "u", "t", "/", "*", "*">>,
      \* vendor/**
      <<"v", "e", "n", "d", "o", "r", "/", "*", "*">>
    >>

\* ignorePaths of NewFileWatcher.
LegacyIgnorePaths ==
    <<
      \* dist
      <<"d", "i", "s", "t">>,
      \* vendor
      <<"v", "e", "n", "d", "o", "r">>,
      \* node_modules
      <<"n", "o", "d", "e", "_", "m", "o", "d", "u", "l", "e", "s">>,
      \* .git
      <<".", "g", "i", "t">>,
      \* .idea
      <<".", "i", "d", "e", "a">>,
      \* .vscode
      <<".", "v", "s", "c", "o", "d", "e">>,
      \* *.test
      <<"*", ".", "t", "e", "s", "t">>,
      \* *.out
      <<"*", ".", "o", "u", "t">>,
      \* coverage.html
      <<"c", "o", "v", "e", "r", "a", "g", "e", ".", "h", "t", "m",
        "l">>
    >>

\* The extensions FileWatcher.ShouldIgnore lets pass.
LegacyExts ==
    <<
      \* .go
      <<".", "g", "o">>,
      \* .yml
      <<".", "y", "m", "l">>,
      \* .yaml
      <<".", "y", "a", "m", "l">>,
      \* .json
      <<".", "j", "s", "o", "n">>,
      \* .mod
      <<".", "m", "o", "d">>,
      \* .sum
      <<".", "s", "u", "m">>
    >>

\* The directories FileWatcher.ShouldIgnore names as generated.
GeneratedDirs ==
    <<
      \* /.git/
      <<"/", ".", "g", "i", "t", "/">>,
      \* /vendor/
      <<"/", "v", "e", "n", "d", "o", "r", "/">>,
      \* /node_modules/
      <<"/", "n", "o", "d", "e", "_", "m", "o", "d", "u", "l", "e",
        "s", "/">>
    >>

\* The suffixes of temporary files in FileWatcher.ShouldIgnore.
TempSuffixes ==
    <<
      \* .tmp
      <<".", "t", "m", "p">>,
      \* .swp
      <<".", "s", "w", "p">>,
      \* .swo
      <<".", "s", "w", "o">>
    >>

\* The suffix shouldIgnoreEvent trims off a pattern to match directories.
DirSuffix == <<"/", "*", "*">>

\* The prefix of an extension-based watch pattern.
ExtPrefix == <<"*", "*", "/", "*">>

\* The suffix of test files in FileWatcher.ShouldIgnore.
TestSuffix == <<"_", "t", "e", "s", "t", ".", "g", "o">>

DotName == <<".">>

TildeName == <<"~">>

HashName == <<"#">>

\* The files the events of the check name, relative to the project root.
EventPaths ==
    {
      \* main.go
      <<"m", "a", "i", "n", ".", "g", "o">>,
      \* cmd/server/main.go
      <<"c", "m", "d", "/", "s", "e", "r", "v", "e", "r", "/", "m",
        "a", "i", "n", ".", "g", "o">>,
      \* README.md
      <<"R", "E", "A", "D", "M", "E", ".", "m", "d">>,
      \* docs/notes.json
      <<"d", "o", "c", "s", "/", "n", "o", "t", "e", "s", ".", "j",
        "s", "o", "n">>,
      \* app.log
      <<"a", "p", "p", ".", "l", "o", "g">>,
      \* logs/app.log
      <<"l", "o", "g", "s", "/", "a", "p", "p", ".", "l", "o", "g">>,
      \* vendor/pkg/file.go
      <<"v", "e", "n", "d", "o", "r", "/", "p", "k", "g", "/", "f",
        "i", "l", "e", ".", "g", "o">>,
      \* a/vendor/b/file.go
      <<"a", "/", "v", "e", "n", "d", "o", "r", "/", "b", "/", "f",
        "i", "l", "e", ".", "g", "o">>,
      \* vendor/x.txt
      <<"v", "e", "n", "d", "o", "r", "/", "x", ".", "t", "x", "t">>,
      \* dist/app
      <<"d", "i", "s", "t", "/", "a", "p", "p">>,
      \* .git/config
      <<".", "g", "i", "t", "/", "c", "o", "n", "f", "i", "g">>,
      \* node_modules/m/index.json
      <<"n", "o", "d", "e", "_", "m", "o", "d", "u", "l", "e", "s",
        "/", "m", "/", "i", "n", "d", "e", "x", ".", "j", "s", "o",
        "n">>,
      \* foo_test.go
      <<"f", "o", "o", "_", "t", "e", "s", "t", ".", "g", "o">>,
      \* a/foo_test.go
      <<"a", "/", "f", "o", "o", "_", "t", "e", "s", "t", ".", "g",
        "o">>,
      \* a/b/foo_test.go
      <<"a", "/", "b", "/", "f", "o", "o", "_", "t", "e", "s", "t",
        ".", "g", "o">>,
      \* config/x.yml
      <<"c", "o", "n", "f", "i", "g", "/", "x", ".", "y", "m", "l">>,
      \* config/a/x.yml
      <<"c", "o", "n", "f", "i", "g", "/", "a", "/", "x", ".", "y",
        "m", "l">>,
      \* config/a/b/x.yml
      <<"c", "o", "n", "f", "i", "g", "/", "a", "/", "b", "/", "x",
        ".", "y", "m", "l">>,
      \* web/templates/b.html
      <<"w", "e", "b", "/", "t", "e", "m", "p", "l", "a", "t", "e",
        "s", "/", "b", ".", "h", "t", "m", "l">>,
      \* web/templates/a/b.html
      <<"w", "e", "b", "/", "t", "e", "m", "p", "l", "a", "t", "e",
        "s", "/", "a", "/", "b", ".", "h", "t", "m", "l">>,
      \* web/templates/a/x.swp
      <<"w", "e", "b", "/", "t", "e", "m", "p", "l", "a", "t", "e",
        "s", "/", "a", "/", "x", ".", "s", "w", "p">>,
      \* ~main.go
      <<"~", "m", "a", "i", "n", ".", "g", "o">>,
      \* .#main.go
      <<".", "#", "m", "a", "i", "n", ".", "g", "o">>,
      \* a/.env.yml
      <<"a", "/", ".", "e", "n", "v", ".", "y", "m", "l">>,
      \* a/#x.go
      <<"a", "/", "#", "x", ".", "g", "o">>,
      \* x.tmp
      <<"x", ".", "t", "m", "p">>,
      \* a/x.tmp
      <<"a", "/", "x", ".", "t", "m", "p">>,
      \* main.go.swp
      <<"m", "a", "i", "n", ".", "g", "o", ".", "s", "w", "p">>,
      \* build/out/x.go
      <<"b", "u", "i", "l", "d", "/", "o", "u", "t", "/", "x", ".",
        "g", "o">>,
      \* build/out/a/x.go
      <<"b", "u", "i", "l", "d", "/", "o", "u", "t", "/", "a", "/",
        "x", ".", "g", "o">>
    }

\* strings.HasPrefix.
HasPrefix(s, prefix) ==
    Len(prefix) <= Len(s) /\ SubSeq(s, 1, Len(prefix)) = prefix

\* strings.HasSuffix.
HasSuffix(s, suffix) ==
    Len(suffix) <= Len(s) /\ SubSeq(s, Len(s) - Len(suffix) + 1, Len(s)) = suffix

\* strings.TrimPrefix.
TrimPrefix(s, prefix) ==
    IF HasPrefix(s, prefix) THEN SubSeq(s, Len(prefix) + 1, Len(s)) ELSE s

\* strings.TrimSuffix.
TrimSuffix(s, suffix) ==
    IF HasSuffix(s, suffix) THEN SubSeq(s, 1, Len(s) - Len(suffix)) ELSE s

\* strings.Contains.
Contains(s, substr) ==
    \E k \in 1..(Len(s) - Len(substr) + 1) :
        SubSeq(s, k, k + Len(substr) - 1) = substr

\* The positions of character c in s.
IndexesOf(s, c) == {k \in 1..Len(s) : s[k] = c}

\* The largest element of a set of positions, 0 for the empty set.
LastOf(ks) == IF ks = {} THEN 0 ELSE CHOOSE k \in ks : \A j \in ks : j <= k

\* The smallest element of a set of positions, 0 for the empty set.
FirstOf(ks) == IF ks = {} THEN 0 ELSE CHOOSE k \in ks : \A j \in ks : k <= j

\* filepath.Dir of a clean relative path: what precedes the last separator,
\* "." for a path without one.
Dir(path) ==
    LET k == LastOf(IndexesOf(path, "/"))
    IN  IF k = 0 THEN DotName ELSE SubSeq(path, 1, k - 1)

\* filepath.Base of a clean relative path: what follows the last separator.
Base(path) == SubSeq(path, LastOf(IndexesOf(path, "/")) + 1, Len(path))

\* filepath.Ext: the suffix of the last element that begins at its last dot,
\* empty when it has no dot.
Ext(path) ==
    LET b == Base(path)
        k == LastOf(IndexesOf(b, "."))
    IN  IF k = 0 THEN <<>> ELSE SubSeq(b, k, Len(b))

\* strings.Split(s, "/"): the elements between the separators.
RECURSIVE Split(_)
Split(s) ==
    LET k == FirstOf(IndexesOf(s, "/"))
    IN  IF k = 0 THEN <<s>>
        ELSE <<SubSeq(s, 1, k - 1)>> \o Split(SubSeq(s, k + 1, Len(s)))

\* filepath.Match for patterns of literal characters and stars: a star
\* matches any sequence of characters other than the separator, so that two
\* stars in a row match what one star matches; the whole name must match.
RECURSIVE Match(_, _)
Match(pattern, name) ==
    IF pattern = <<>> THEN name = <<>>
    ELSE IF Head(pattern) = "*"
         THEN \/ Match(Tail(pattern), name)
              \/ /\ name # <<>>
                 /\ Head(name) # "/"
                 /\ Match(pattern, Tail(name))
         ELSE /\ name # <<>>
              /\ Head(name) = Head(pattern)
              /\ Match(Tail(pattern), Tail(name))

\* The source of the patterns of a watcher: the defaults of
\* loadProjectConfig, the goforge.yml of a scaffolded project, a goforge.yml
\* with its own dev.ignore and no dev.watch, or the FileWatcher, which has
\* no configuration.
Watchers == {"default", "template", "custom", "legacy"}

\* aw.watchPatterns after loadProjectConfig.
WatchPatterns(w) ==
    IF w = "template" THEN TemplateWatch ELSE DefaultWatch

\* aw.ignorePatterns after loadProjectConfig.
IgnorePatterns(w) ==
    CASE w = "template" -> TemplateIgnore
      [] w = "custom"   -> CustomIgnore
      [] OTHER          -> DefaultIgnore

\* The kinds of fsnotify.Op; an event carries a set of them.
EventOps == {{"create"}, {"write"}, {"remove"}, {"rename"}, {"chmod"}}

\* The inner loop of shouldIgnoreEvent over the ignore patterns: some
\* directory of the path matches the pattern without its "/**".
DirMatches(pattern, relPath) ==
    LET dirs == Split(Dir(relPath))
    IN  \E k \in 1..Len(dirs) : Match(TrimSuffix(pattern, DirSuffix), dirs[k])

\* AdvancedWatcher.shouldIgnoreEvent.
shouldIgnoreEvent(w, relPath, op) ==
    LET ignorePatterns == IgnorePatterns(w)
        watchPatterns  == WatchPatterns(w)
    IN  IF "write" \notin op /\ "create" \notin op THEN TRUE
        ELSE IF \E k \in 1..Len(ignorePatterns) :
                    \/ Match(ignorePatterns[k], relPath)
                    \/ DirMatches(ignorePatterns[k], relPath)
             THEN TRUE
        ELSE IF \E k \in 1..Len(watchPatterns) :
                    \/ Match(watchPatterns[k], relPath)
                    \/ /\ HasPrefix(watchPatterns[k], ExtPrefix)
                       /\ HasSuffix(relPath,
                                    TrimPrefix(watchPatterns[k], ExtPrefix))
             THEN FALSE
        ELSE TRUE

\* FileWatcher.shouldIgnorePath.
shouldIgnorePath(path) ==
    \E k \in 1..Len(LegacyIgnorePaths) :
        \/ Match(LegacyIgnorePaths[k], Base(path))
        \/ LET parts == Split(path)
           IN  \E j \in 1..Len(parts) : Match(LegacyIgnorePaths[k], parts[j])

\* FileWatcher.ShouldIgnore.
ShouldIgnore(relPath) ==
    LET base == Base(relPath)
    IN  \/ shouldIgnorePath(relPath)
        \/ \A k \in 1..Len(LegacyExts) : Ext(relPath) # LegacyExts[k]
        \/ HasSuffix(relPath, TestSuffix)
        \/ HasPrefix(base, DotName)
        \/ HasPrefix(base, TildeName)
        \/ \E k \in 1..Len(TempSuffixes) : HasSuffix(base, TempSuffixes[k])
        \/ Contains(base, HashName)
        \/ \E k \in 1..Len(GeneratedDirs) : Contains(relPath, GeneratedDirs[k])

\* One event reaches a watcher, not yet classified.
FilterInit ==
    /\ SessionInit
    /\ pt = NoCall
    /\ wk = NoWalk
    /\ ev \in [watcher : Watchers, path : EventPaths, op : EventOps,
               verdict : {"none"}]

\* watchLoop passes the event to shouldIgnoreEvent and schedules a restart
\* unless it returns true.
FilterEvent ==
    /\ ev.watcher \in {"default", "template", "custom"}
    /\ ev.verdict = "none"
    /\ ev' = [ev EXCEPT !.verdict =
                 IF shouldIgnoreEvent(ev.watcher, ev.path, ev.op)
                 THEN "ignored" ELSE "relevant"]
    /\ UNCHANGED <<sessionVars, pt, wk>>

\* The loop of the FileWatcher: ShouldIgnore, then the test of the
\* operation.
LegacyFilterEvent ==
    /\ ev.watcher = "legacy"
    /\ ev.verdict = "none"
    /\ ev' = [ev EXCEPT !.verdict =
                 IF \/ ShouldIgnore(ev.path)
                    \/ ("write" \notin ev.op /\ "create" \notin ev.op)
                 THEN "ignored" ELSE "relevant"]
    /\ UNCHANGED <<sessionVars, pt, wk>>

FilterNext == FilterEvent \/ LegacyFilterEvent

FilterSpec == FilterInit /\ [][FilterNext]_vars

(***************************************************************************)
(* What the specification asks of the event filter.  Its patterns are      *)
(* shell globs in which "**" stands for any number of directories.         *)
(***************************************************************************)

\* A sequence of path elements against a sequence of pattern elements, "**"
\* standing for any number of elements.
RECURSIVE SegMatch(_, _)
SegMatch(ps, ss) ==
    IF ps = <<>> THEN ss = <<>>
    ELSE IF Head(ps) = <<"*", "*">>
         THEN \/ SegMatch(Tail(ps), ss)
              \/ ss # <<>> /\ SegMatch(ps, Tail(ss))
         ELSE /\ ss # <<>>
              /\ Match(Head(ps), Head(ss))
              /\ SegMatch(Tail(ps), Tail(ss))

\* A path against a glob in which "**" means any path depth.
GlobMatch(pattern, path) == SegMatch(Split(pattern), Split(path))

\* The directories above the file of a path, outermost first.
Ancestors(path) == SubSeq(Split(path), 1, Len(Split(path)) - 1)

\* Some directory above the file is matched, at some depth below the root,
\* by an exclude directory pattern of the watcher.
UnderExcludedDir(w, path) ==
    LET dirs == Ancestors(path)
    IN  IF w = "legacy"
        THEN \E k \in 1..Len(LegacyIgnorePaths), a \in 1..Len(dirs) :
                 Match(LegacyIgnorePaths[k], dirs[a])
        ELSE \E k \in 1..Len(IgnorePatterns(w)) :
                 /\ HasSuffix(IgnorePatterns(w)[k], DirSuffix)
                 /\ \E a \in 1..Len(dirs), b \in 1..Len(dirs) :
                        /\ a <= b
                        /\ SegMatch(Split(TrimSuffix(IgnorePatterns(w)[k],
                                                     DirSuffix)),
                                    SubSeq(dirs, a, b))

\* The file of the path matches an exclude pattern of the watcher.
FileExcluded(w, path) ==
    \E k \in 1..Len(IgnorePatterns(w)) : GlobMatch(IgnorePatterns(w)[k], path)

\* The path matches an include pattern of the watcher.
FileIncluded(w, path) ==
    \E k \in 1..Len(WatchPatterns(w)) : GlobMatch(WatchPatterns(w)[k], path)

\* The base name is an editor or temporary artifact by the fixed convention.
Artifact(base) ==
    \/ HasPrefix(base, DotName)
    \/ HasPrefix(base, TildeName)
    \/ \E k \in 1..Len(TempSuffixes) : HasSuffix(base, TempSuffixes[k])
    \/ Contains(base, HashName)

Classified == ev.verdict # "none"

\* C12: an event on a path below a directory that an exclude directory
\* pattern matches, at any depth below the root, is classified not relevant,
\* whatever the extension of the file and the kind of the change.
C12_ExcludedDirNeverRelevant ==
    (Classified /\ UnderExcludedDir(ev.watcher, ev.path))
        => ev.verdict = "ignored"

\* C13: a write or a create of a path that matches an include pattern and no
\* exclude pattern, "**" meaning any depth, is classified relevant; a delete
\* is classified not relevant for every path.
C13_IncludedWriteRelevant ==
    Classified =>
        /\ ( /\ ev.watcher # "legacy"
             /\ ev.op \in {{"write"}, {"create"}}
             /\ FileIncluded(ev.watcher, ev.path)
             /\ ~FileExcluded(ev.watcher, ev.path)
             /\ ~UnderExcludedDir(ev.watcher, ev.path) )
               => ev.verdict = "relevant"
        /\ ev.op = {"remove"} => ev.verdict = "ignored"

\* C14: exclude takes precedence over include: an event on a path whose file
\* matches an exclude pattern and an include pattern is classified not
\* relevant.
C14_ExcludeBeatsInclude ==
    ( /\ Classified
      /\ ev.watcher # "legacy"
      /\ FileExcluded(ev.watcher, ev.path)
      /\ FileIncluded(ev.watcher, ev.path) )
        => ev.verdict = "ignored"

\* C15: an event on a file whose base name is a dotfile, starts with "~",
\* ends in .tmp, .swp or .swo, or contains "#" is classified not relevant,
\* also when the name matches an include pattern.
C15_ArtifactsNeverRelevant ==
    (Classified /\ Artifact(Base(ev.path))) => ev.verdict = "ignored"

(***************************************************************************)
(* The restart sequence and the shutdown, further properties.              *)
(***************************************************************************)

\* Task t takes position pc in this step.
Enters(t, pc) == task[t].pc # pc /\ task'[t].pc = pc

\* The positions of a task inside ProcessManager.Stop.
InStop(pc) == pc \in {"stop_check", "stop_signal", "stop_wait", "stop_select",
                      "stop_killwait"}

\* The positions of a task inside ProcessManager.Start.
InStart(pc) == pc \in {"start_assign", "start_spawn"}

\* C21: in a restart sequence the steps come in the order Stop, port reclaim,
\* delay, Start: EnsurePortAvailable is called in the step in which the Stop
\* of the sequence returns, the delay begins when EnsurePortAvailable returns,
\* and Start is called from the delay only, after which the sequence holds
\* the results of its Stop and of EnsurePortAvailable and is in no Stop.
C21_RestartStepsInOrder ==
    /\ [][\A i \in Seqs :
             /\ Enters(i, "stop_check") => task[i].pc = "fired"
             /\ Enters(i, "port")
                   => ( /\ InStop(task[i].pc)
                        /\ task'[i].stop \in {"noop", "graceful", "forced"} )
             /\ Enters(i, "settle") => task[i].pc = "port"
             /\ Enters(i, "start_assign") => task[i].pc = "settle"]_vars
    /\ [](\A i \in Seqs :
             InStart(task[i].pc)
                => ( /\ task[i].stop \in {"noop", "graceful", "forced"}
                     /\ task[i].port \in {"ok", "err"}
                     /\ task[i].h = 0
                     /\ task[i].w = 0 ))

\* A restart sequence is in its Start after a Stop that waited for the child
\* and a port that was reported free.
C21_Witness ==
    \E i \in Seqs : /\ task[i].pc = "start_spawn"
                    /\ task[i].stop = "graceful"
                    /\ task[i].port = "ok"

\* C22: no Debounce is called less than the cool-down (2s) after the end of
\* the most recent restart sequence: a relevant event that arrives then is
\* discarded, however long the sequence took.
C22_CoolDownFromCompletion ==
    [][nCalls' # nCalls => sinceDone >= CoolDownTicks]_vars

\* Task t returns from ProcessManager.Stop in this step.
StopReturns(t) ==
    /\ InStop(task[t].pc)
    /\ ~InStop(task'[t].pc)
    /\ task'[t].pc # "gone"

\* C23: a Stop that has signalled a child returns only when that child is
\* dead, on the graceful path and on the kill path alike, and pm.cmd is set
\* to nil only when the command it holds has no live child.
C23_StopReturnsAfterWait ==
    /\ [][\A t \in Tasks :
             (StopReturns(t) /\ task[t].h # 0) => cmds[task[t].h].proc # "alive"]_vars
    /\ [][(pmCmd # 0 /\ pmCmd' = 0) => cmds[pmCmd].proc # "alive"]_vars

\* C24: while a restart sequence is executing, the Stop of the shutdown (and
\* that of the deferred Close) does not act on pm: the main task takes no
\* step of ProcessManager.Stop.
C24_ShutdownWaitsForSequence ==
    [][( /\ \E i \in Seqs : RestartRunning(i)
         /\ mainPhase \in {"stop", "close"}
         /\ InStop(task[Main].pc) )
          => (task'[Main] = task[Main] \/ task'[Main].pc = "gone")]_vars

\* AdvancedWatcher.Stop, called by RunE for the shutdown, has returned.
ShutdownStopReturned == mainPhase \in {"close", "exited"}

\* C28: once the shutdown Stop has returned, no child of the session is alive
\* and no child is started.
C28_NoChildAfterShutdown ==
    /\ [](ShutdownStopReturned => Alive = {})
    /\ [][ShutdownStopReturned
             => \A c \in Cmds : cmds'[c].proc = "alive" => cmds[c].proc = "alive"]_vars

\* The Stops that have signalled child c and have not returned.
StopsOf(c) == {t \in Tasks : InStop(task[t].pc) /\ task[t].h = c}

\* C30: during the shutdown, while ProcessManager.Stop of the main task and
\* the Stop or Start of a restart sequence run side by side, no task is about
\* to dereference pm.cmd where it is nil (or holds a command without a
\* process, in Stop), and a child has the signals of one Stop at most: one
\* SIGTERM, and one Stop that waits for it.
C30_NoUseAfterInvalidate ==
    mainPhase \in {"stop", "close"} =>
        /\ \A t \in Tasks :
              /\ task[t].pc \in {"stop_signal", "stop_wait"}
                    => ~NilDeref(pmCmd, cmds)
              /\ task[t].pc = "start_spawn" => pmCmd # 0
        /\ \A c \in Cmds : cmds[c].terms <= 1 /\ Cardinality(StopsOf(c)) <= 1

\* C29: inside the cool-down (less than 2s after lastRestart) no event
\* reaches the Debouncer: d.timer is as it was and Debounce is not called, a
\* pending timer is neither cancelled nor armed again (it runs on, or fires);
\* and lastRestart is set anew only in the step in which a debounced function
\* begins to run.
C29_DiscardLeavesDebouncer ==
    /\ [][sinceRestart < CoolDownTicks
             => ( /\ dTimer' = dTimer
                  /\ nCalls' = nCalls
                  /\ \A i \in Seqs :
                        task[i].pc = "pending"
                           => ( /\ task'[i].pc \in {"pending", "fired", "gone"}
                                /\ task'[i].clk <= task[i].clk ) )]_vars
    /\ [][sinceRestart' < sinceRestart
             => \E i \in Seqs : Leaves(i, "fired") /\ task'[i].pc = "stop_check"]_vars

\* watchLoop is running inside the cool-down while a timer is pending: a
\* relevant event that arrives now is discarded.
C29_Witness ==
    /\ Up
    /\ loop = "running"
    /\ fw = "open"
    /\ sinceRestart < CoolDownTicks
    /\ \E i \in Seqs : task[i].pc = "pending" /\ dTimer = i /\ task[i].clk > 0

(***************************************************************************)
(* The port step of a restart sequence, further properties.                *)
(***************************************************************************)

\* The cleanup sends a forceful kill in this step.
KillSent == ~pt.killed /\ pt'.killed

\* C25: on Linux, macOS and Windows alike a port cleanup sends a forceful
\* kill only when it has sent the graceful signal, the grace delay of 1s has
\* passed since, and the port is found still bound.
C25_GracefulBeforeForcefulKill ==
    [][KillSent => ( /\ pt.pc = "grace"
                     /\ pt.clk = 0
                     /\ pt.signalled
                     /\ pt.held )]_vars

\* The application config names no port: there is no config/default.yml, or
\* it has no server.port.
NoPortConfigured == ~pt.cfgFile \/ pt.cfgPort = 0

\* C27: when no port is configured, the restart sequence does not call
\* EnsurePortAvailable, and no process is signalled or killed for a port.
C27_NoPortNoReclaim ==
    NoPortConfigured => ( /\ pt.pc = "idle"
                          /\ ~pt.cleaned
                          /\ ~pt.signalled
                          /\ ~pt.killed )

(***************************************************************************)
(* addWatchPaths, one walk taken by itself: the directories of a project   *)
(* tree that are subscribed to, under the ignore patterns of               *)
(* loadProjectConfig (AdvancedWatcher) or the ignorePaths of the           *)
(* FileWatcher.                                                            *)
(***************************************************************************)

\* A project tree as filepath.Walk visits it (each directory before its
\* entries, the entries in the order of their names): a service with vendored
\* code at the top and inside internal.
ServiceTree ==
    <<
      \* .
      [path |-> <<".">>, dir |-> TRUE],
      \* .git
      [path |-> <<".", "g", "i", "t">>, dir |-> TRUE],
      \* .git/objects
      [path |-> <<".", "g", "i", "t", "/", "o", "b", "j", "e", "c", "t",
        "s">>, dir |-> TRUE],
      \* build
      [path |-> <<"b", "u", "i", "l", "d">>, dir |-> TRUE],
      \* build/out
      [path |-> <<"b", "u", "i", "l", "d", "/", "o", "u", "t">>, dir |->
        TRUE],
      \* build/out/a
      [path |-> <<"b", "u", "i", "l", "d", "/", "o", "u", "t", "/",
        "a">>, dir |-> TRUE],
      \* cmd
      [path |-> <<"c", "m", "d">>, dir |-> TRUE],
      \* cmd/server
      [path |-> <<"c", "m", "d", "/", "s", "e", "r", "v", "e", "r">>,
        dir |-> TRUE],
      \* dist
      [path |-> <<"d", "i", "s", "t">>, dir |-> TRUE],
      \* internal
      [path |-> <<"i", "n", "t", "e", "r", "n", "a", "l">>, dir |->
        TRUE],
      \* internal/vendor
      [path |-> <<"i", "n", "t", "e", "r", "n", "a", "l", "/", "v", "e",
        "n", "d", "o", "r">>, dir |-> TRUE],
      \* internal/vendor/lib
      [path |-> <<"i", "n", "t", "e", "r", "n", "a", "l", "/", "v", "e",
        "n", "d", "o", "r", "/", "l", "i", "b">>, dir |-> TRUE],
      \* internal/vendor/lib/x.go
      [path |-> <<"i", "n", "t", "e", "r", "n", "a", "l", "/", "v", "e",
        "n", "d", "o", "r", "/", "l", "i", "b", "/", "x", ".", "g",
        "o">>, dir |-> FALSE],
      \* main.go
      [path |-> <<"m", "a", "i", "n", ".", "g", "o">>, dir |-> FALSE],
      \* node_modules
      [path |-> <<"n", "o", "d", "e", "_", "m", "o", "d", "u", "l", "e",
        "s">>, dir |-> TRUE],
      \* node_modules/m
      [path |-> <<"n", "o", "d", "e", "_", "m", "o", "d", "u", "l", "e",
        "s", "/", "m">>, dir |-> TRUE],
      \* vendor
      [path |-> <<"v", "e", "n", "d", "o", "r">>, dir |-> TRUE],
      \* vendor/pkg
      [path |-> <<"v", "e", "n", "d", "o", "r", "/", "p", "k", "g">>,
        dir |-> TRUE],
      \* vendor/pkg/file.go
      [path |-> <<"v", "e", "n", "d", "o", "r", "/", "p", "k", "g", "/",
        "f", "i", "l", "e", ".", "g", "o">>, dir |-> FALSE]
    >>

\* A second project tree: a web application with the packages of its front
\* end below web.
WebTree ==
    <<
      \* .
      [path |-> <<".">>, dir |-> TRUE],
      \* .idea
      [path |-> <<".", "i", "d", "e", "a">>, dir |-> TRUE],
      \* config
      [path |-> <<"c", "o", "n", "f", "i", "g">>, dir |-> TRUE],
      \* config/env
      [path |-> <<"c", "o", "n", "f", "i", "g", "/", "e", "n", "v">>,
        dir |-> TRUE],
      \* go.mod
      [path |-> <<"g", "o", ".", "m", "o", "d">>, dir |-> FALSE],
      \* web
      [path |-> <<"w", "e", "b">>, dir |-> TRUE],
      \* web/app.json
      [path |-> <<"w", "e", "b", "/", "a", "p", "p", ".", "j", "s", "o",
        "n">>, dir |-> FALSE],
      \* web/dist
      [path |-> <<"w", "e", "b", "/", "d", "i", "s", "t">>, dir |->
        TRUE],
      \* web/node_modules
      [path |-> <<"w", "e", "b", "/", "n", "o", "d", "e", "_", "m", "o",
        "d", "u", "l", "e", "s">>, dir |-> TRUE],
      \* web/node_modules/m
      [path |-> <<"w", "e", "b", "/", "n", "o", "d", "e", "_", "m", "o",
        "d", "u", "l", "e", "s", "/", "m">>, dir |-> TRUE],
      \* web/templates
      [path |-> <<"w", "e", "b", "/", "t", "e", "m", "p", "l", "a", "t",
        "e", "s">>, dir |-> TRUE]
    >>

Trees == {ServiceTree, WebTree}

\* The test of AdvancedWatcher.addWatchPaths on a directory: some ignore
\* pattern, without its "/**", matches the path relative to the root.
IgnoredDir(w, relPath) ==
    \E k \in 1..Len(IgnorePatterns(w)) :
        Match(TrimSuffix(IgnorePatterns(w)[k], DirSuffix), relPath)

\* filepath.SkipDir returned for directory d: Walk leaves out what is below d.
SkipDir(todo, d) ==
    LET Below(entry) == HasPrefix(entry.path, d \o <<"/">>)
    IN  SelectSeq(todo, LAMBDA entry : ~Below(entry))

\* What the function addWatchPaths gives to filepath.Walk does with the next
\* entry: a file is passed over, a directory that is to be ignored is skipped
\* with what is below it, any other directory is added to the watcher.
Visit(ignored) ==
    LET entry == Head(wk.todo)
    IN  IF ~entry.dir THEN [wk EXCEPT !.todo = Tail(@)]
        ELSE IF ignored THEN [wk EXCEPT !.todo = SkipDir(Tail(@), entry.path)]
        ELSE [wk EXCEPT !.todo = Tail(@),
                        !.subscribed = @ \cup {entry.path}]

\* AdvancedWatcher.Start has reached addWatchPaths, or NewFileWatcher has.
WalkInit ==
    /\ SessionInit
    /\ ev = NoEvent
    /\ pt = NoCall
    /\ wk \in {[pc |-> "walk", watcher |-> w, todo |-> t, subscribed |-> {}] :
                  w \in Watchers, t \in Trees}

\* AdvancedWatcher.addWatchPaths: filepath.Walk calls the function for the
\* next entry.
WalkVisit ==
    /\ wk.pc = "walk"
    /\ wk.watcher # "legacy"
    /\ wk.todo # <<>>
    /\ wk' = Visit(IgnoredDir(wk.watcher, Head(wk.todo).path))
    /\ UNCHANGED <<sessionVars, ev, pt>>

\* FileWatcher.addWatchPaths: filepath.Walk calls the function for the next
\* entry.
LegacyWalkVisit ==
    /\ wk.pc = "walk"
    /\ wk.watcher = "legacy"
    /\ wk.todo # <<>>
    /\ wk' = Visit(shouldIgnorePath(Head(wk.todo).path))
    /\ UNCHANGED <<sessionVars, ev, pt>>

\* filepath.Walk has visited the tree: addWatchPaths returns nil.
WalkReturn ==
    /\ wk.pc = "walk"
    /\ wk.todo = <<>>
    /\ wk' = [wk EXCEPT !.pc = "done"]
    /\ UNCHANGED <<sessionVars, ev, pt>>

WalkNext == WalkVisit \/ LegacyWalkVisit \/ WalkReturn

WalkSpec == WalkInit /\ [][WalkNext]_vars

\* Directory d is matched by an exclude directory pattern of the watcher, or
\* lies below a directory that is: a file in d lies under an excluded
\* directory.
InExcludedTree(w, d) == UnderExcludedDir(w, d \o <<"/", "_">>)

\* C26: no subscribed directory is an ignored one: neither it nor a directory
\* above it is matched by an exclude directory pattern, at whatever depth
\* below the root the match lies.
C26_NoIgnoredDirSubscribed ==
    \A d \in wk.subscribed : ~InExcludedTree(wk.watcher, d)

====
